---- MODULE Spec2Model ----
(***************************************************************************)
(* Model of scripts/get_fund_data.py: fetching a fund's NAV table from the *)
(* provider (two retrieval variants, optional merge), normalising its rows *)
(* into {date, netValue, cumulativeNetValue} records, sorting and          *)
(* filtering them, and reporting one JSON envelope with an exit status.    *)
(*                                                                         *)
(* Strings are sequences of one-character strings.  The provider's Chinese *)
(* column names are spelled one syllable per character:                    *)
(*   jing zhi ri qi   = net-value date   (contains the token "ri qi")      *)
(*   dan wei jing zhi = unit net value                                     *)
(*   lei ji jing zhi  = cumulative net value (contains "lei ji")           *)
(*   ri zeng zhang lv = daily growth rate                                  *)
(* Floating-point values are modelled by integers.                         *)
(***************************************************************************)
EXTENDS Integers, Sequences, FiniteSets, TLC

VARIABLES
    pc,            \* where the script is
    argv,          \* sys.argv
    start_date,    \* the optional bounds, None when the argument is absent
    end_date,
    df,            \* the table being worked on
    last_error,    \* the last provider error recorded
    data,          \* the list of records
    result,        \* what get_fund_data returned
    err,           \* the exception in flight
    stdout,        \* the documents printed so far
    exit_code,     \* the exit status, -1 while running
    calls,         \* history: the provider calls made, in order
    accepted,      \* history: data as the row loop left it
    accepted_from  \* history: the row of df each accepted record came from

vars == <<pc, argv, start_date, end_date, df, last_error, data, result, err,
          stdout, exit_code, calls, accepted, accepted_from>>

\* Largest number of rows in a table the provider returns.
MaxRows == 2

(***************************************************************************)
(* Strings                                                                 *)
(***************************************************************************)
\* Python's `t in s` for strings.
Contains(s, t) ==
    \E i \in 0..(Len(s) - Len(t)) : SubSeq(s, i + 1, i + Len(t)) = t

\* str.lower() on one character (the upper-case letters the names use).
LowerChar(c) ==
    CASE c = "D" -> "d"
      [] c = "A" -> "a"
      [] c = "T" -> "t"
      [] c = "E" -> "e"
      [] c = "I" -> "i"
      [] c = "M" -> "m"
      [] OTHER -> c

Lower(s) == [i \in 1..Len(s) |-> LowerChar(s[i])]

\* Rank of a character in code-point order.
Ord(c) ==
    CASE c = " " -> 0
      [] c = "0" -> 1
      [] c = "1" -> 2
      [] c = "2" -> 3
      [] c = "9" -> 4
      [] OTHER -> 5

\* Python's s < t on strings: lexical order by code point.
RECURSIVE StrLess(_, _)
StrLess(s, t) ==
    IF t = <<>> THEN FALSE
    ELSE IF s = <<>> THEN TRUE
    ELSE IF Ord(Head(s)) < Ord(Head(t)) THEN TRUE
    ELSE IF Ord(Head(s)) > Ord(Head(t)) THEN FALSE
    ELSE StrLess(Tail(s), Tail(t))

StrLeq(s, t) == s = t \/ StrLess(s, t)

IsSpace(c) == c = " "

\* str.split(): the whitespace-separated words of s.
RECURSIVE SplitWords(_, _, _)
SplitWords(s, cur, acc) ==
    IF s = <<>> THEN (IF cur = <<>> THEN acc ELSE Append(acc, cur))
    ELSE IF IsSpace(Head(s))
         THEN SplitWords(Tail(s), <<>>, IF cur = <<>> THEN acc ELSE Append(acc, cur))
         ELSE SplitWords(Tail(s), Append(cur, Head(s)), acc)

Split(s) == SplitWords(s, <<>>, <<>>)

(***************************************************************************)
(* Optional values, cells and tables                                       *)
(***************************************************************************)
NoneStr == [some |-> FALSE, s |-> <<>>]
SomeStr(s) == [some |-> TRUE, s |-> s]
NoneNum == [some |-> FALSE, v |-> 0]
SomeNum(v) == [some |-> TRUE, v |-> v]

\* A cell is missing (NaN/None), a string, or a number.
NaN == [k |-> "nan", s |-> <<>>, v |-> 0]
Str(s) == [k |-> "str", s |-> s, v |-> 0]
Num(v) == [k |-> "num", s |-> <<>>, v |-> v]

\* pd.notna
NotNa(c) == c.k # "nan"

NoneDF == [kind |-> "none", cols |-> <<>>, rows |-> <<>>]
Frame(cols, rows) == [kind |-> "frame", cols |-> cols, rows |-> rows]

IsNone(t) == t.kind = "none"
\* DataFrame.empty: some axis has length 0.
IsEmpty(t) == Len(t.cols) = 0 \/ Len(t.rows) = 0

(***************************************************************************)
(* Conversions                                                             *)
(***************************************************************************)
Digits == <<"0", "1", "2", "3", "4", "5", "6", "7", "8", "9">>

IsDigit(c) == \E i \in 1..Len(Digits) : Digits[i] = c
DigitVal(c) == (CHOOSE i \in 1..Len(Digits) : Digits[i] = c) - 1

RECURSIVE DigitsVal(_, _)
DigitsVal(s, acc) ==
    IF s = <<>> THEN acc
    ELSE DigitsVal(Tail(s), acc * Len(Digits) + DigitVal(Head(s)))

\* float(val): a number is itself, a string of digits parses, any other
\* string raises ValueError (the result is then None).
ToFloat(c) ==
    IF c.k = "num" THEN SomeNum(c.v)
    ELSE IF c.s # <<>> /\ \A i \in 1..Len(c.s) : IsDigit(c.s[i])
         THEN SomeNum(DigitsVal(c.s, 0))
         ELSE NoneNum

\* str(val) of a cell: a string is itself; a float prints with its fraction.
CellStr(c) ==
    IF c.k = "str" THEN c.s ELSE <<Digits[c.v + 1], ".", "0">>

(***************************************************************************)
(* Column-name heuristics                                                  *)
(***************************************************************************)
TokRiQi == <<"ri", "qi">>
TokDate == <<"d", "a", "t", "e">>
TokTime == <<"t", "i", "m", "e">>
TokDanWeiJingZhi == <<"dan", "wei", "jing", "zhi">>
TokLeiJi == <<"lei", "ji">>
TokLeiJiJingZhi == <<"lei", "ji", "jing", "zhi">>
SuffixCum == <<"_", "c", "u", "m">>

IsDateColumn(col) ==
    Contains(col, TokRiQi) \/ Contains(Lower(col), TokDate)
        \/ Contains(Lower(col), TokTime)

IsUnitColumn(col) ==
    Contains(col, TokDanWeiJingZhi) /\ ~Contains(col, TokLeiJi)

IsCumColumn(col) == Contains(col, TokLeiJiJingZhi)

(***************************************************************************)
(* The row loop of get_fund_data                                           *)
(***************************************************************************)
\* The date read from one cell; NoneStr when the cell is missing or when
\* split()[0] raises IndexError (a string of spaces only).
ExtractDate(c) ==
    IF ~NotNa(c) THEN NoneStr
    ELSE LET s == CellStr(c) IN
         IF Contains(s, <<" ">>)
         THEN (IF Split(s) = <<>> THEN NoneStr ELSE SomeStr(Split(s)[1]))
         ELSE SomeStr(s)

ExtractFloat(c) == IF NotNa(c) THEN ToFloat(c) ELSE NoneNum

\* The date is read from the first date-token column only.
RECURSIVE ScanColumnsFirstDateOnly(_, _, _, _)
ScanColumnsFirstDateOnly(cols, row, i, acc) ==
    IF i > Len(cols) THEN acc
    ELSE LET col == cols[i]
             d == IF IsDateColumn(col)
                     /\ \A j \in 1..(i - 1) : ~IsDateColumn(cols[j])
                  THEN ExtractDate(row[i]) ELSE acc.date
             n == IF ~acc.net_value.some /\ IsUnitColumn(col)
                  THEN ExtractFloat(row[i]) ELSE acc.net_value
             c == IF ~acc.cumulative_net_value.some /\ IsCumColumn(col)
                  THEN ExtractFloat(row[i]) ELSE acc.cumulative_net_value
         IN ScanColumnsFirstDateOnly(cols, row, i + 1,
                [date |-> d, net_value |-> n, cumulative_net_value |-> c])

\* One pass of `for col in df.columns` over columns i..Len(cols).
RECURSIVE ScanColumns(_, _, _, _)
ScanColumns(cols, row, i, acc) ==
    IF i > Len(cols) THEN acc
    ELSE LET col == cols[i]
             d == IF ~acc.date.some /\ IsDateColumn(col)
                  THEN ExtractDate(row[i]) ELSE acc.date
             n == IF ~acc.net_value.some /\ IsUnitColumn(col)
                  THEN ExtractFloat(row[i]) ELSE acc.net_value
             c == IF ~acc.cumulative_net_value.some /\ IsCumColumn(col)
                  THEN ExtractFloat(row[i]) ELSE acc.cumulative_net_value
         IN ScanColumns(cols, row, i + 1,
                [date |-> d, net_value |-> n, cumulative_net_value |-> c])

ScanRow(cols, row) ==
    ScanColumns(cols, row, 1,
        [date |-> NoneStr, net_value |-> NoneNum, cumulative_net_value |-> NoneNum])

\* Python truthiness of `date`: not None and not the empty string.
Truthy(d) == d.some /\ d.s # <<>>

\* Reconciliation that only fills the cumulative value from the unit value.
ReconcileOneWay(x) ==
    [date |-> x.date, net_value |-> x.net_value,
     cumulative_net_value |-> IF ~x.cumulative_net_value.some /\ x.net_value.some
                              THEN x.net_value ELSE x.cumulative_net_value]

\* Lines 112-117: fill the missing value from the present one.
Reconcile(x) ==
    LET n == IF ~x.net_value.some /\ x.cumulative_net_value.some
             THEN x.cumulative_net_value ELSE x.net_value
        c == IF ~x.cumulative_net_value.some /\ n.some
             THEN n ELSE x.cumulative_net_value
    IN [date |-> x.date, net_value |-> n, cumulative_net_value |-> c]

\* The acceptance test with >= 0 in place of > 0.
NonNegative(x) ==
    /\ x.net_value.some /\ x.net_value.v >= 0
    /\ x.cumulative_net_value.some /\ x.cumulative_net_value.v >= 0

\* Line 119.
Positive(x) ==
    /\ x.net_value.some /\ x.net_value.v > 0
    /\ x.cumulative_net_value.some /\ x.cumulative_net_value.v > 0

\* Lines 110-124: the records one row appends to data (none or one).
RowRecords(cols, row) ==
    LET x == ScanRow(cols, row) IN
    IF Truthy(x.date) /\ (x.net_value.some \/ x.cumulative_net_value.some)
    THEN LET y == Reconcile(x) IN
         IF Positive(y)
         THEN << [date |-> y.date.s, netValue |-> y.net_value.v,
                  cumulativeNetValue |-> y.cumulative_net_value.v] >>
         ELSE <<>>
    ELSE <<>>

\* Lines 69-124: data after `for _, row in df.iterrows()`.
RECURSIVE NormalizeFrom(_, _)
NormalizeFrom(t, i) ==
    IF i > Len(t.rows) THEN <<>>
    ELSE RowRecords(t.cols, t.rows[i]) \o NormalizeFrom(t, i + 1)

Normalize(t) == NormalizeFrom(t, 1)

\* The indices of the rows that appended a record, in order.
RECURSIVE AcceptedFrom(_, _)
AcceptedFrom(t, i) ==
    IF i > Len(t.rows) THEN <<>>
    ELSE (IF RowRecords(t.cols, t.rows[i]) = <<>> THEN <<>> ELSE <<i>>)
            \o AcceptedFrom(t, i + 1)

\* The emptiness check left out.
NoRecordsNever(d) == FALSE

\* Line 126: `if not data`.
NoRecords(d) == d = <<>>

(***************************************************************************)
(* Sort and filter                                                         *)
(***************************************************************************)
\* Insert r after every element whose date is <= r.date (stable).
RECURSIVE InsertByDate(_, _)
InsertByDate(sorted, r) ==
    IF sorted = <<>> THEN <<r>>
    ELSE IF StrLess(r.date, Head(sorted).date)
         THEN <<r>> \o sorted
         ELSE <<Head(sorted)>> \o InsertByDate(Tail(sorted), r)

\* data.sort(key=lambda x: x['date']): stable, ascending.
RECURSIVE SortFrom(_, _, _)
SortFrom(xs, i, acc) ==
    IF i > Len(xs) THEN acc
    ELSE SortFrom(xs, i + 1, InsertByDate(acc, xs[i]))

SortByDate(xs) == SortFrom(xs, 1, <<>>)

\* The start bound made exclusive.
KeepAfter(xs, lo) == SelectSeq(xs, LAMBDA r : StrLess(lo, r.date))

KeepFrom(xs, lo) == SelectSeq(xs, LAMBDA r : StrLeq(lo, r.date))
KeepUpTo(xs, hi) == SelectSeq(xs, LAMBDA r : StrLeq(r.date, hi))

\* Lines 133-136: each bound applies when the argument is truthy.
FilterRange(xs, lo, hi) ==
    LET a == IF Truthy(lo) THEN KeepFrom(xs, lo.s) ELSE xs
    IN IF Truthy(hi) THEN KeepUpTo(a, hi.s) ELSE a

(***************************************************************************)
(* Merging the cumulative table into the unit table (method 1)             *)
(***************************************************************************)
\* Line 34.
HasCumulative(cols) == \E i \in 1..Len(cols) : Contains(cols[i], TokLeiJiJingZhi)

\* Lines 41-45: index of the first column whose name contains "ri qi";
\* 0 when there is none (date_col stays None).
MergeDateCol(cols) ==
    IF \E i \in 1..Len(cols) : Contains(cols[i], TokRiQi)
    THEN CHOOSE i \in 1..Len(cols) :
            /\ Contains(cols[i], TokRiQi)
            /\ \A j \in 1..(i - 1) : ~Contains(cols[j], TokRiQi)
    ELSE 0

IndexOf(seq, x) ==
    IF \E i \in 1..Len(seq) : seq[i] = x
    THEN CHOOSE i \in 1..Len(seq) : seq[i] = x /\ \A j \in 1..(i - 1) : seq[j] # x
    ELSE 0

Without(seq, j) ==
    [i \in 1..(Len(seq) - 1) |-> IF i < j THEN seq[i] ELSE seq[i + 1]]

RECURSIVE ConcatAll(_)
ConcatAll(ss) == IF ss = <<>> THEN <<>> ELSE Head(ss) \o ConcatAll(Tail(ss))

\* Order of join keys in the result: strings lexically, missing keys last.
KeyLess(a, b) == a.k = "str" /\ (b.k = "nan" \/ StrLess(a.s, b.s))

RECURSIVE SortKeys(_)
SortKeys(S) ==
    IF S = {} THEN <<>>
    ELSE LET m == CHOOSE x \in S : \A y \in S \ {x} : KeyLess(x, y)
         IN <<m>> \o SortKeys(S \ {m})

\* merge raises KeyError when the right table has no column named date_col.
MergeRaises(l, r, di) == IndexOf(r.cols, l.cols[di]) = 0

\* df.merge(df_cumulative, on=date_col, how='outer', suffixes=('', '_cum'))
Merge(l, r, di) ==
    LET rj == IndexOf(r.cols, l.cols[di])
        rrest == Without(r.cols, rj)
        rcols == [i \in 1..Len(rrest) |->
                    IF IndexOf(l.cols, rrest[i]) # 0
                    THEN rrest[i] \o SuffixCum ELSE rrest[i]]
        keys == SortKeys({l.rows[i][di] : i \in 1..Len(l.rows)}
                         \cup {r.rows[i][rj] : i \in 1..Len(r.rows)})
        blankR == [i \in 1..Len(rrest) |-> NaN]
        RowsOf(k) ==
            LET L == SelectSeq(l.rows, LAMBDA x : x[di] = k)
                R == SelectSeq(r.rows, LAMBDA x : x[rj] = k)
            IN IF L = <<>>
               THEN [j \in 1..Len(R) |->
                        [i \in 1..Len(l.cols) |-> IF i = di THEN k ELSE NaN]
                            \o Without(R[j], rj)]
               ELSE IF R = <<>>
               THEN [i \in 1..Len(L) |-> L[i] \o blankR]
               ELSE ConcatAll([i \in 1..Len(L) |->
                        [j \in 1..Len(R) |-> L[i] \o Without(R[j], rj)]])
    IN Frame(l.cols \o rcols, ConcatAll([n \in 1..Len(keys) |-> RowsOf(keys[n])]))

\* A failed merge attempt discards the unit table instead of keeping it.
MergeAttemptDiscarding(t, o) ==
    IF o.kind = "frame" /\ ~IsEmpty(o.df)
       /\ MergeDateCol(t.cols) # 0 /\ ~MergeRaises(t, o.df, MergeDateCol(t.cols))
    THEN Merge(t, o.df, MergeDateCol(t.cols))
    ELSE NoneDF

\* Lines 37-52: df after the merge attempt with the cumulative call's outcome.
MergeAttempt(t, o) ==
    IF o.kind = "frame" /\ ~IsEmpty(o.df)
       /\ MergeDateCol(t.cols) # 0 /\ ~MergeRaises(t, o.df, MergeDateCol(t.cols))
    THEN Merge(t, o.df, MergeDateCol(t.cols))
    ELSE t

(***************************************************************************)
(* The provider: what a call of fund_open_fund_info_em can return          *)
(***************************************************************************)
ColJingZhiRiQi == <<"jing", "zhi", "ri", "qi">>
ColDanWeiJingZhi == <<"dan", "wei", "jing", "zhi">>
ColLeiJiJingZhi == <<"lei", "ji", "jing", "zhi">>
ColRiZengZhangLv == <<"ri", "zeng", "zhang", "lv">>
ColDate == <<"D", "a", "t", "e">>

D1 == Str(<<"1">>)
D2 == Str(<<"2">>)
D10 == Str(<<"1", "0">>)
D2T == Str(<<"2", " ", "9">>)
DBlank == Str(<<" ">>)
DEmpty == Str(<<>>)
Bad == Str(<<"x">>)

\* All tables with the given columns and 1..MaxRows rows drawn from rows.
Frames(cols, rows) ==
    { Frame(cols, r) : r \in UNION { [1..n -> rows] : n \in 1..MaxRows } }

\* Unit-NAV trend, the provider's usual schema (no cumulative column).
UnitTrendRows ==
    { <<D1, Num(1), Num(0)>>, <<D2, Num(1), Num(0)>>, <<D2, NaN, Num(0)>> }

\* A table that carries both values.
BothRows ==
    { <<D1, Num(1), Num(2)>>, <<D2, Num(1), NaN>>, <<D2, NaN, Num(2)>>,
      <<D1, Num(0), Num(2)>>, <<D1, Num(1), Num(0)>>, <<D1, NaN, NaN>>,
      <<D2, Bad, Num(2)>>, <<DEmpty, Num(1), Num(2)>>, <<NaN, Num(1), Num(2)>>,
      <<D2T, Str(<<"1">>), Num(2)>>, <<D10, Num(1), Num(2)>> }

\* A table with two date-like columns.
TwoDateRows ==
    { <<NaN, D2, Num(2)>>, <<DBlank, D1, Num(2)>>, <<DEmpty, D2, Num(2)>>,
      <<D1, D2, Num(2)>>, <<NaN, NaN, Num(2)>> }

\* Cumulative-NAV trend, the provider's usual schema.
CumTrendRows == { <<D1, Num(2)>>, <<D10, Num(2)>>, <<D2, NaN>> }

UnitFrames ==
    Frames(<<ColJingZhiRiQi, ColDanWeiJingZhi, ColRiZengZhangLv>>, UnitTrendRows)
    \cup Frames(<<ColJingZhiRiQi, ColDanWeiJingZhi, ColLeiJiJingZhi>>, BothRows)
    \cup Frames(<<ColDate, ColJingZhiRiQi, ColLeiJiJingZhi>>, TwoDateRows)
    \cup Frames(<<ColDate, ColDanWeiJingZhi>>, { <<D1, Num(1)>>, <<D2, Num(1)>> })
    \cup Frames(<<ColJingZhiRiQi, ColRiZengZhangLv>>, { <<D1, Num(0)>> })

CumFrames ==
    Frames(<<ColJingZhiRiQi, ColLeiJiJingZhi>>, CumTrendRows)
    \cup Frames(<<ColDate, ColLeiJiJingZhi>>, { <<D2T, Str(<<"2">>)>> })
    \cup Frames(<<ColJingZhiRiQi, ColDanWeiJingZhi, ColLeiJiJingZhi>>,
                { <<D1, Num(1), Num(2)>> })

NoError == [some |-> FALSE, text |-> ""]
Error(text) == [some |-> TRUE, text |-> text]

\* An outcome of one provider call: it raises, returns None, or returns a
\* table (possibly with no rows).
Raises(text) == [kind |-> "raise", df |-> NoneDF, error |-> Error(text)]
Returns(t) ==
    [kind |-> IF IsNone(t) THEN "none" ELSE "frame", df |-> t, error |-> NoError]

UnitOutcomes ==
    { Raises("unit_error"), Returns(NoneDF),
      Returns(Frame(<<ColJingZhiRiQi, ColDanWeiJingZhi>>, <<>>)) }
    \cup { Returns(t) : t \in UnitFrames }

CumOutcomes ==
    { Raises("cum_error"), Returns(NoneDF),
      Returns(Frame(<<ColJingZhiRiQi, ColLeiJiJingZhi>>, <<>>)) }
    \cup { Returns(t) : t \in CumFrames }

\* What a call is remembered as.
Call(site, indicator, o) ==
    [site |-> site, indicator |-> indicator,
     outcome |-> IF o.kind = "frame" /\ IsEmpty(o.df) THEN "empty" ELSE o.kind,
     df |-> o.df, error |-> o.error]

(***************************************************************************)
(* Command lines                                                           *)
(***************************************************************************)
Script == <<"s">>
FundCode == <<"0", "0", "0", "0", "0", "1">>

ArgvSet ==
    { <<Script>>, <<Script, FundCode>> }
    \cup { <<Script, FundCode, s>> : s \in { <<>>, <<"1", "0">> } }
    \cup { <<Script, FundCode, s, e>> :
                s \in { <<>>, <<"1", "0">> }, e \in { <<>>, <<"1", "0">> } }

(***************************************************************************)
(* Exceptions and envelopes                                                *)
(***************************************************************************)
NoMessage == [prefix |-> "", kind |-> "", last |-> ""]
NoException == [class |-> "none", message |-> NoMessage]
\* sys.exit(1)
SystemExit == [class |-> "SystemExit", message |-> NoMessage]
\* Line 66, re-raised with the prefix of line 141.
NoDataAvailable(e) ==
    [class |-> "Exception",
     message |-> [prefix |-> "fetch_failed", kind |-> "NoDataAvailable",
                  last |-> IF e.some THEN e.text ELSE "None"]]
\* Line 127, re-raised with the prefix of line 141.
NoValidRecords ==
    [class |-> "Exception",
     message |-> [prefix |-> "fetch_failed", kind |-> "NoValidRecords", last |-> ""]]

\* A bare `except:` would catch SystemExit too.
ExceptCatchesAll(e) == e.class # "none"

\* `except Exception` catches Exception and its subclasses; SystemExit is a
\* BaseException and passes through.
ExceptCatches(e) == e.class = "Exception"

MissingArgument == [prefix |-> "", kind |-> "MissingArgument", last |-> ""]

ErrorEnvelope(m) == [success |-> "absent", data |-> <<>>, error |-> m]
SuccessEnvelope(d) == [success |-> "true", data |-> d, error |-> NoMessage]
FailureEnvelope(m) == [success |-> "false", data |-> <<>>, error |-> m]

(***************************************************************************)
(* The program                                                             *)
(***************************************************************************)
Init ==
    /\ pc = "main"
    /\ argv \in ArgvSet
    /\ start_date = NoneStr
    /\ end_date = NoneStr
    /\ df = NoneDF
    /\ last_error = NoError
    /\ data = <<>>
    /\ accepted = <<>>
    /\ accepted_from = <<>>
    /\ result = <<>>
    /\ err = NoException
    /\ stdout = <<>>
    /\ exit_code = -1
    /\ calls = <<>>

\* Line 146.
MissingCode(a) == Len(a) < 2

\* Lines 151-152: the optional argument at position i of sys.argv (0-based).
OptionalArg(a, i) == IF Len(a) > i THEN SomeStr(a[i + 1]) ELSE NoneStr

\* Lines 144-154: check the arguments and enter get_fund_data.
Main ==
    /\ pc = "main"
    /\ IF MissingCode(argv)
       THEN /\ stdout' = Append(stdout, ErrorEnvelope(MissingArgument))
            /\ err' = SystemExit
            /\ pc' = "except"
            /\ UNCHANGED <<start_date, end_date>>
       ELSE /\ start_date' = OptionalArg(argv, 2)
            /\ end_date' = OptionalArg(argv, 3)
            /\ pc' = "method1"
            /\ UNCHANGED <<stdout, err>>
    /\ UNCHANGED <<argv, df, last_error, data, accepted, accepted_from, result,
                   exit_code, calls>>

\* Only the first error is kept.
LastErrorFirst(prev, o) == IF o.kind = "raise" /\ ~prev.some THEN o.error ELSE prev

\* Lines 53-54, 61-62: a raising call is recorded as last_error.
LastErrorAfter(prev, o) == IF o.kind = "raise" THEN o.error ELSE prev

\* Lines 32-35: the unit table is usable and lacks a cumulative column.
WantsMerge(t) == ~IsNone(t) /\ ~IsEmpty(t) /\ ~HasCumulative(t.cols)

\* Lines 30-33, 53-55: method 1, the unit-NAV trend call.
Method1 ==
    /\ pc = "method1"
    /\ \E o \in UnitOutcomes :
        /\ calls' = Append(calls, Call("method1", "unit", o))
        /\ last_error' = LastErrorAfter(last_error, o)
        /\ df' = o.df
        /\ pc' = IF WantsMerge(o.df) THEN "merge" ELSE "method2"
    /\ UNCHANGED <<argv, start_date, end_date, data, accepted, accepted_from,
                   result, err,
                   stdout, exit_code>>

\* Lines 36-52: fetch the cumulative trend and merge it in; any failure is
\* swallowed and df stays the unit table.
MergeCumulative ==
    /\ pc = "merge"
    /\ \E o \in CumOutcomes :
        /\ calls' = Append(calls, Call("merge", "cum", o))
        /\ df' = MergeAttempt(df, o)
    /\ pc' = "method2"
    /\ UNCHANGED <<argv, start_date, end_date, last_error, data, accepted,
                   accepted_from, result, err, stdout, exit_code>>

\* The fallback test inverted: `df is None or not df.empty`.
UnusableInverted(t) == IsNone(t) \/ ~IsEmpty(t)

\* Lines 58, 65: `df is None or df.empty`.
Unusable(t) == IsNone(t) \/ IsEmpty(t)

\* Lines 57-66 when method 1 left a usable table: method 2 is skipped.
Method2Skip ==
    /\ pc = "method2"
    /\ ~Unusable(df)
    /\ pc' = "normalize"
    /\ UNCHANGED <<argv, start_date, end_date, df, last_error, data, accepted,
                   accepted_from, result, err, stdout, exit_code, calls>>

\* Lines 57-66 when it did not: the cumulative-NAV trend call, then the
\* check that some table was obtained.
Method2Fetch ==
    /\ pc = "method2"
    /\ Unusable(df)
    /\ \E o \in CumOutcomes :
        /\ calls' = Append(calls, Call("method2", "cum", o))
        /\ df' = o.df
        /\ last_error' = LastErrorAfter(last_error, o)
        /\ IF Unusable(o.df)
           THEN /\ err' = NoDataAvailable(last_error')
                /\ pc' = "except"
           ELSE /\ pc' = "normalize"
                /\ UNCHANGED err
    /\ UNCHANGED <<argv, start_date, end_date, data, accepted, accepted_from,
                   result, stdout,
                   exit_code>>

\* Lines 68-127: the row loop and the check that some row was accepted.
NormalizeRows ==
    /\ pc = "normalize"
    /\ data' = Normalize(df)
    /\ accepted' = data'
    /\ accepted_from' = AcceptedFrom(df, 1)
    /\ IF NoRecords(data')
       THEN /\ err' = NoValidRecords
            /\ pc' = "except"
       ELSE /\ pc' = "sort"
            /\ UNCHANGED err
    /\ UNCHANGED <<argv, start_date, end_date, df, last_error, result, stdout,
                   exit_code, calls>>

\* The emptiness check applied again after filtering.
SortFilterChecked ==
    /\ pc = "sort"
    /\ data' = FilterRange(SortByDate(data), start_date, end_date)
    /\ IF NoRecords(data')
       THEN /\ err' = NoValidRecords
            /\ pc' = "except"
            /\ UNCHANGED result
       ELSE /\ result' = data'
            /\ pc' = "print"
            /\ UNCHANGED err
    /\ UNCHANGED <<argv, start_date, end_date, df, last_error, accepted,
                   accepted_from, stdout, exit_code, calls>>

\* Lines 129-138: sort, filter and return.
SortFilter ==
    /\ pc = "sort"
    /\ data' = FilterRange(SortByDate(data), start_date, end_date)
    /\ result' = data'
    /\ pc' = "print"
    /\ UNCHANGED <<argv, start_date, end_date, df, last_error, accepted,
                   accepted_from, err,
                   stdout, exit_code, calls>>

\* Lines 156-159: the success envelope; the script then ends normally.
PrintSuccess ==
    /\ pc = "print"
    /\ stdout' = Append(stdout, SuccessEnvelope(result))
    /\ exit_code' = 0
    /\ pc' = "exit"
    /\ UNCHANGED <<argv, start_date, end_date, df, last_error, data, accepted,
                   accepted_from, result, err, calls>>

\* Lines 161-166: an exception reaches the handler of the main block.
Except ==
    /\ pc = "except"
    /\ stdout' = IF ExceptCatches(err)
                 THEN Append(stdout, FailureEnvelope(err.message))
                 ELSE stdout
    /\ exit_code' = 1
    /\ pc' = "exit"
    /\ UNCHANGED <<argv, start_date, end_date, df, last_error, data, accepted,
                   accepted_from, result, err, calls>>

Next ==
    \/ Main
    \/ Method1
    \/ MergeCumulative
    \/ Method2Skip
    \/ Method2Fetch
    \/ NormalizeRows
    \/ SortFilter
    \/ PrintSuccess
    \/ Except

Spec == Init /\ [][Next]_vars

(***************************************************************************)
(* Properties                                                              *)
(***************************************************************************)
Returned == pc \in {"print", "exit"} /\ err = NoException
\* Some variant produced a usable table.
Fetched ==
    /\ Len(calls) > 0
    /\ pc \notin {"method1", "merge", "method2"}
    /\ err.message.kind # "NoDataAvailable"
\* The row loop has run.
Normalized == Fetched /\ pc # "normalize"
Failed(o) == o \in {"raise", "none", "empty"}
SitesCalled == { calls[i].site : i \in 1..Len(calls) }
CallAt(site) == calls[CHOOSE i \in 1..Len(calls) : calls[i].site = site]

\* t extends u: its columns begin with u's and every row of u is the
\* beginning of a row of t (u itself, or u outer-joined with more columns).
Extends(t, u) ==
    /\ Len(t.cols) >= Len(u.cols)
    /\ SubSeq(t.cols, 1, Len(u.cols)) = u.cols
    /\ \A i \in 1..Len(u.rows) :
          \E j \in 1..Len(t.rows) : SubSeq(t.rows[j], 1, Len(u.cols)) = u.rows[i]

\* C1: the variants are tried in the order unit-NAV trend, then
\* cumulative-NAV trend.  When the unit call returns a non-empty table, the
\* table that is normalized is that table (possibly widened by the merge) and
\* method 2 is not invoked; the method-2 result is the table only when the
\* unit call raised or returned a null/empty table.
C1_FirstUsableWins ==
    /\ \A i \in 1..Len(calls) :
          (calls[i].indicator = "unit") = (i = 1)
    /\ \A i \in 1..Len(calls) :
          calls[i].site = "method2" => Failed(calls[1].outcome)
    /\ Fetched =>
          IF calls[1].outcome = "frame"
          THEN "method2" \notin SitesCalled /\ Extends(df, calls[1].df)
          ELSE "method2" \in SitesCalled /\ df = CallAt("method2").df
                  /\ CallAt("method2").outcome = "frame"

C1_Witness ==
    /\ pc = "normalize"
    /\ calls[1].outcome = "frame"
    /\ "merge" \in SitesCalled
    /\ Len(df.cols) > Len(calls[1].df.cols)

\* C9: in one invocation the provider is called at most twice and the
\* cumulative-NAV variant at most once: the merge attempt of method 1 and
\* the method-2 fallback never both happen, whatever the provider does.
C9_NoRetry ==
    /\ Len(calls) <= 2
    /\ Cardinality({ i \in 1..Len(calls) : calls[i].indicator = "cum" }) <= 1
    /\ Cardinality({ i \in 1..Len(calls) : calls[i].indicator = "unit" }) <= 1
    /\ ~({"merge", "method2"} \subseteq SitesCalled)

C9_Witness ==
    /\ pc = "exit"
    /\ "merge" \in SitesCalled
    /\ CallAt("merge").outcome = "raise"
    /\ df = calls[1].df

\* C2: every invocation writes exactly one JSON document before it exits;
\* the exit status is 0 exactly when that document is the success envelope
\* and 1 otherwise; the missing-argument path prints only the envelope
\* without a success key.
C2_OneDocument ==
    /\ Len(stdout) <= 1
    /\ pc # "exit" => exit_code = -1
    /\ pc = "exit" =>
          /\ Len(stdout) = 1
          /\ exit_code \in {0, 1}
          /\ (exit_code = 0) = (stdout[1].success = "true")
          /\ (stdout[1].success = "absent") = MissingCode(argv)
          /\ MissingCode(argv) => stdout = <<ErrorEnvelope(MissingArgument)>>

C2_Witness ==
    /\ pc = "exit"
    /\ MissingCode(argv)
    /\ stdout = <<ErrorEnvelope(MissingArgument)>>
    /\ exit_code = 1

RaisingCalls == { i \in 1..Len(calls) : calls[i].outcome = "raise" }
LatestRaising == CHOOSE i \in RaisingCalls : \A j \in RaisingCalls : j <= i
AllVariantsFailed ==
    /\ pc \in {"except", "exit"}
    /\ Len(calls) = 2
    /\ \A i \in 1..Len(calls) : Failed(calls[i].outcome)

\* C7 as stated: when every variant failed, the error is NoDataAvailable and
\* its message carries the text of the error raised by the latest variant
\* that raised, for every combination of raise/empty outcomes.
C7_LastErrorAlwaysCarried ==
    AllVariantsFailed =>
        /\ err.message.kind = "NoDataAvailable"
        /\ RaisingCalls # {}
        /\ err.message.last = calls[LatestRaising].error.text

\* C7 amended: when every variant failed, the error is NoDataAvailable; if
\* some variant raised, its message carries the text of the error of the
\* latest variant that raised; if none raised (both returned a null/empty
\* table) it carries the text "None".  The failure envelope carries it.
C7_LastErrorOrNone ==
    AllVariantsFailed =>
        /\ err.message.kind = "NoDataAvailable"
        /\ err.message.last = IF RaisingCalls # {}
                              THEN calls[LatestRaising].error.text
                              ELSE "None"
        /\ pc = "exit" => stdout = <<FailureEnvelope(err.message)>>

C7_Witness ==
    /\ pc = "exit"
    /\ Len(calls) = 2
    /\ calls[1].outcome = "raise"
    /\ calls[2].outcome = "empty"
    /\ stdout[1].error.last = "unit_error"

Elements(xs) == { xs[i] : i \in 1..Len(xs) }
Count(xs, r) == Cardinality({ i \in 1..Len(xs) : xs[i] = r })
DateCols(t) == { j \in 1..Len(t.cols) : IsDateColumn(t.cols[j]) }
NavCols(t) == { j \in 1..Len(t.cols) : IsUnitColumn(t.cols[j]) \/ IsCumColumn(t.cols[j]) }
PositiveCell(c) == NotNa(c) /\ ToFloat(c).some /\ ToFloat(c).v > 0
RecordOf(i) == accepted[CHOOSE k \in 1..Len(accepted_from) : accepted_from[k] = i]

\* C3: every record get_fund_data holds or returns has a non-empty date and
\* strictly positive netValue and cumulativeNetValue, and comes from a row
\* that has a date cell and no extracted value that is not positive.
C3_RecordsValid ==
    /\ \A r \in Elements(data) \cup Elements(accepted) \cup Elements(result)
                \cup UNION { Elements(stdout[i].data) : i \in 1..Len(stdout) } :
          r.date # <<>> /\ r.netValue > 0 /\ r.cumulativeNetValue > 0
    /\ Normalized =>
          \A k \in 1..Len(accepted_from) :
             LET row == df.rows[accepted_from[k]] IN
             /\ \E j \in DateCols(df) : NotNa(row[j])
             /\ \E j \in NavCols(df) : PositiveCell(row[j])

C3_Witness ==
    /\ pc = "exit"
    /\ stdout[1].success = "true"
    /\ stdout[1].data # <<>>
    /\ \E i \in 1..Len(df.rows) :
          /\ i \notin Elements(accepted_from)
          /\ \E j \in NavCols(df) : df.rows[i][j] = Num(0)
          /\ \E j \in DateCols(df) : df.rows[i][j] = D1

\* C4: a row that has a date and from which exactly one of unit and
\* cumulative NAV was extracted, that value being strictly positive, yields
\* exactly one record, whose netValue and cumulativeNetValue both equal it;
\* when both were extracted, the record carries each unchanged.
C4_Reconciliation ==
    Normalized =>
        \A i \in 1..Len(df.rows) :
           LET x == ScanRow(df.cols, df.rows[i])
               u == x.net_value
               c == x.cumulative_net_value
           IN /\ (Truthy(x.date) /\ u.some /\ ~c.some /\ u.v > 0) =>
                    /\ Count(accepted_from, i) = 1
                    /\ RecordOf(i) = [date |-> x.date.s, netValue |-> u.v,
                                      cumulativeNetValue |-> u.v]
              /\ (Truthy(x.date) /\ c.some /\ ~u.some /\ c.v > 0) =>
                    /\ Count(accepted_from, i) = 1
                    /\ RecordOf(i) = [date |-> x.date.s, netValue |-> c.v,
                                      cumulativeNetValue |-> c.v]
              /\ (u.some /\ c.some /\ i \in Elements(accepted_from)) =>
                    /\ RecordOf(i).netValue = u.v
                    /\ RecordOf(i).cumulativeNetValue = c.v

C4_Witness ==
    /\ pc = "sort"
    /\ ~HasCumulative(df.cols)
    /\ \E i \in Elements(accepted_from) :
          /\ df.rows[i][2] = Num(1)
          /\ RecordOf(i).cumulativeNetValue = 1
    /\ \E i \in Elements(accepted_from) : i > 1

\* A bound is given when the argument is present and not the empty string
\* (an empty argument is how a caller passes an end date without a start date).
Given(b) == b.some /\ b.s # <<>>
InWindow(d) ==
    /\ Given(start_date) => StrLeq(start_date.s, d)
    /\ Given(end_date) => StrLeq(d, end_date.s)

\* C5: the returned list holds exactly the accepted records whose date lies
\* in the window start_date <= d <= end_date (each bound inclusive, lexical,
\* applied when given, independently of the other), each as often as it was
\* accepted, in ascending lexical order of date.
C5_FilterSort ==
    Returned =>
        /\ \A r \in Elements(accepted) \cup Elements(result) :
              Count(result, r) = IF InWindow(r.date) THEN Count(accepted, r) ELSE 0
        /\ \A i, j \in 1..Len(result) :
              i < j => StrLeq(result[i].date, result[j].date)
        /\ pc = "exit" => stdout = <<SuccessEnvelope(result)>>

C5_Witness ==
    /\ pc = "exit"
    /\ Given(start_date)
    /\ ~Given(end_date)
    /\ Len(accepted) > Len(result)
    /\ \E i \in 1..Len(result) : result[i].date = start_date.s
    /\ \E i \in 1..Len(result) : StrLess(start_date.s, result[i].date)

\* A row from which no record can come: every date cell is missing, or no
\* NAV cell holds a strictly positive number.
Hopeless(t, row) ==
    \/ \A j \in DateCols(t) : ~NotNa(row[j])
    \/ \A j \in NavCols(t) : ~PositiveCell(row[j])

\* C6: when the fetched table is non-empty but no row survives acceptance,
\* the run fails with NoValidRecords: the failure envelope, exit status 1,
\* no success envelope, and no retrieval variant is tried afterwards.
C6_NoValidRecords ==
    /\ (Normalized /\ \A i \in 1..Len(df.rows) : Hopeless(df, df.rows[i]))
          => accepted = <<>>
    /\ (Normalized /\ accepted = <<>>) =>
          /\ ~Unusable(df)
          /\ err = NoValidRecords
          /\ calls[1].outcome = "frame" => "method2" \notin SitesCalled
          /\ Len(calls) <= 2
          /\ pc = "exit" =>
                /\ stdout = <<FailureEnvelope(NoValidRecords.message)>>
                /\ exit_code = 1

C6_Witness ==
    /\ pc = "exit"
    /\ Len(calls) = 1
    /\ calls[1].outcome = "frame"
    /\ Len(df.rows) > 1
    /\ stdout[1].error.kind = "NoValidRecords"

\* C10: when some row is accepted but the date window excludes every
\* accepted record, the run succeeds with an empty data array and exit
\* status 0; NoValidRecords is raised only for an empty list before filtering.
C10_EmptyWindowSucceeds ==
    /\ accepted # <<>> => err = NoException
    /\ (pc = "exit" /\ accepted # <<>> /\ \A r \in Elements(accepted) : ~InWindow(r.date))
          => stdout = <<SuccessEnvelope(<<>>)>> /\ exit_code = 0

C10_Witness ==
    /\ pc = "exit"
    /\ Len(accepted) > 1
    /\ Given(start_date)
    /\ Given(end_date)
    /\ stdout = <<SuccessEnvelope(<<>>)>>

FirstDateCol(t) == CHOOSE j \in DateCols(t) : \A k \in DateCols(t) : j <= k
YieldsDate(t, row) == { j \in DateCols(t) : ExtractDate(row[j]).some }
FirstYielding(t, row) ==
    CHOOSE j \in YieldsDate(t, row) : \A k \in YieldsDate(t, row) : j <= k

\* C8 as stated: only the first date-token column is used; a row whose cell
\* in that column is missing gets no date and is dropped, whatever a later
\* date-token column holds.
C8_FirstDateColumnOnly ==
    Normalized =>
        \A i \in 1..Len(df.rows) :
           (DateCols(df) # {} /\ ~NotNa(df.rows[i][FirstDateCol(df)]))
              => i \notin Elements(accepted_from)

\* C8 amended: a row's date is read from the first column, in column order,
\* whose name contains a date token and whose cell yields a date for that
\* row (not missing, not blank); a missing cell in the first date-token
\* column makes the next date-token column the source, and the row is left
\* without a date only when no date-token column yields one.
C8_FirstYieldingDateColumn ==
    Normalized =>
        \A i \in 1..Len(df.rows) :
           LET row == df.rows[i] IN
           IF YieldsDate(df, row) = {}
           THEN i \notin Elements(accepted_from)
           ELSE LET d == ExtractDate(row[FirstYielding(df, row)]).s IN
                /\ i \in Elements(accepted_from) => RecordOf(i).date = d
                /\ (d # <<>> /\ NavCols(df) # {}
                      /\ \A j \in NavCols(df) : PositiveCell(row[j]))
                     => i \in Elements(accepted_from)

C8_Witness ==
    /\ pc = "sort"
    /\ \E i \in Elements(accepted_from) :
          /\ ~NotNa(df.rows[i][FirstDateCol(df)])
          /\ RecordOf(i).date = <<"2">>

====
